---- MODULE Spec2Model ----
(***************************************************************************)
(* A model of wt, the git worktree manager: the process executor           *)
(* (utils/compat.ts), the hook engine (lib/hooks.ts), the configuration    *)
(* resolver (lib/config.ts), the CLI commands new/rm/mv/cd and the TUI     *)
(* worktree list (tui/hooks/useWorktrees.ts), the App component            *)
(* (tui/App.tsx), the Settings dialog and the preferences file.            *)
(*                                                                         *)
(* The specifications share the variables:                                 *)
(*   SpecCli     one or more CLI invocations, each running its hook        *)
(*               through executeHook and execShellCommand;                 *)
(*   SpecTui     the worktree list of the TUI under refreshes;             *)
(*   SpecConfig  getConfig over a space of configuration files;            *)
(*   SpecHook    executeHook over every shape of hook configuration;       *)
(*   SpecStatus  getWorktreeStatus over the answers of git;                *)
(*   SpecPrimary wt rm, wt mv and the TUI delete dialog on one repository; *)
(*   SpecParse   parseWorktreeList over worktree listings;                 *)
(*   SpecPrefs   overlapping savePreferences calls of one process;         *)
(*   SpecApp     the keys and dialogs of the App component;                *)
(*   SpecSettings the Settings dialog adding a repository override.        *)
(***************************************************************************)
EXTENDS Integers, Sequences, FiniteSets, TLC

VARIABLES
    isBun,      \* compat.ts isBun: which runtime executes the program
    config,     \* the parsed global configuration file
    resolved,   \* the last result of getConfig
    gitNames,   \* names of the worktrees git reports (the external truth)
    cli,        \* the running CLI invocation
    exitCode,   \* exit code of the CLI process, once it has exited
    stdout,     \* lines the CLI printed on stdout
    hk,         \* the activation of executeHook
    px,         \* the activation of execShellCommand and its child process
    executed,   \* shell commands handed to execShellCommand, in order
    results,    \* the HookResult of every command that returned one
    warnings,   \* warnings executeHook printed
    runs,       \* CLI invocations started so far
    worktrees,  \* useWorktrees: the displayed worktrees (React state)
    isLoading,  \* useWorktrees: isLoading
    error,      \* useWorktrees: error
    fetches,    \* useWorktrees: the fetchWorktrees calls in flight
    applied,    \* names of the listing most recently put on display
    started,    \* fetchWorktrees calls started so far
    dialog,     \* DeleteConfirm: the worktree it was confirmed for and its error
    call,       \* the call of a library function under examination
    writeLock,  \* preferences: the module variable writeLock
    released,   \* preferences: the lock promises that were resolved
    prefsFile,  \* preferences: the keys stored in preferences.json
    savers,     \* preferences: the savePreferences calls and where they stand
    selectedIndex,          \* App: selectedIndex
    activeDialog,           \* App: activeDialog
    initialSelectionDone,   \* App: initialSelectionDone
    destinationPath,        \* App: destinationPath
    currentPath,            \* App: the prop currentPath (process.cwd())
    quit        \* App: whether exit() was called, and what onSelect was given

cliVars == <<cli, exitCode, stdout, hk, px, executed, results, warnings, runs>>
tuiVars == <<worktrees, isLoading, error, fetches, applied, started, dialog>>
prefVars == <<writeLock, released, prefsFile, savers>>
appVars == <<selectedIndex, activeDialog, initialSelectionDone, destinationPath,
             currentPath, quit>>
vars == <<isBun, config, resolved, gitNames, cliVars, tuiVars, call, prefVars,
          appVars>>

------------------------------------------------------------------------------
(* Bounds of the model *)

\* CLI invocations in one behaviour
MaxRuns == 1
\* fetchWorktrees calls in one behaviour
MaxFetches == 2

------------------------------------------------------------------------------
(* lib/config.ts: hook configuration values *)

HookTypes == {"post-create", "post-select", "post-delete", "post-rename"}

\* timeout: z.number().positive().optional() -- 0 stands for an absent field
NoTimeout == 0

\* A HookCommand is a string, an array of strings or an object; Undefined is
\* the absent value.  ckind tells whether an object's commands is a string.
HC(kind, ckind, str, arr, timeout, coe) ==
    [kind |-> kind, ckind |-> ckind, str |-> str, arr |-> arr,
     timeout |-> timeout, coe |-> coe]

Undefined == HC("undefined", "none", "", <<>>, NoTimeout, "unset")
HStr(s) == HC("string", "none", s, <<>>, NoTimeout, "unset")
HArr(a) == HC("array", "none", "", a, NoTimeout, "unset")
HObjStr(s, t, c) == HC("object", "string", s, <<>>, t, c)
HObjArr(a, t, c) == HC("object", "array", "", a, t, c)

\* JavaScript truthiness of a HookCommand | undefined
Truthy(h) == ~(h.kind = "undefined" \/ (h.kind = "string" /\ h.str = ""))

NoHooks == [t \in HookTypes |-> Undefined]

------------------------------------------------------------------------------
(* lib/hooks.ts *)

DEFAULT_TIMEOUT == 30

Null == [isNull |-> TRUE, commands |-> <<>>, timeout |-> DEFAULT_TIMEOUT,
         continueOnError |-> FALSE]

\* normalizeHookConfig that ignores the explicit timeout and continueOnError
normalizeHookConfigDefaults(h) ==
    IF ~Truthy(h) THEN Null
    ELSE [isNull |-> FALSE,
          commands |-> IF h.kind = "string" \/ h.ckind = "string"
                       THEN <<h.str>> ELSE h.arr,
          timeout |-> DEFAULT_TIMEOUT, continueOnError |-> FALSE]

normalizeHookConfig(h) ==
    IF ~Truthy(h) THEN Null
    ELSE IF h.kind = "string" THEN
        [isNull |-> FALSE, commands |-> <<h.str>>,
         timeout |-> DEFAULT_TIMEOUT, continueOnError |-> FALSE]
    ELSE IF h.kind = "array" THEN
        [isNull |-> FALSE, commands |-> h.arr,
         timeout |-> DEFAULT_TIMEOUT, continueOnError |-> FALSE]
    ELSE
        [isNull |-> FALSE,
         commands |-> IF h.ckind = "string" THEN <<h.str>> ELSE h.arr,
         timeout |-> IF h.timeout = NoTimeout THEN DEFAULT_TIMEOUT ELSE h.timeout,
         continueOnError |-> IF h.coe = "unset" THEN FALSE ELSE h.coe = "true"]

\* A HookContext; oldName "" and oldPath <<>> stand for the absent fields
Context(name, path, branch, repoId, oldName, oldPath) ==
    [name |-> name, path |-> path, branch |-> branch, repoId |-> repoId,
     oldName |-> oldName, oldPath |-> oldPath]

buildHookEnv(hookType, context) ==
    [WT_NAME |-> context.name, WT_PATH |-> context.path,
     WT_BRANCH |-> context.branch, WT_REPO_ID |-> context.repoId,
     WT_HOOK |-> hookType]
    @@ (IF context.oldName # "" THEN [WT_OLD_NAME |-> context.oldName]
        ELSE <<>>)
    @@ (IF context.oldPath # <<>> THEN [WT_OLD_PATH |-> context.oldPath]
        ELSE <<>>)

getHookConfig(hooks, hookType) == hooks[hookType]

------------------------------------------------------------------------------
(* utils/compat.ts: execShellCommand and the child process it supervises *)

\* exit code reported for a command that timed out
TIMEOUT_EXIT == 124

PxIdle ==
    [phase |-> "none",         \* none | racing | awaitExit (Bun) | running (Node) | done
     outcome |-> "none",       \* none | returned | raised
     alive |-> FALSE,          \* the child process runs
     streamsOpen |-> FALSE,    \* the child still holds its stdout/stderr pipes
     code |-> 0,               \* exit code of the child
     bySignal |-> FALSE,       \* the child was ended by a signal (code is null)
     ignoresTerm |-> FALSE,    \* the child ignores SIGTERM
     timer |-> "none",         \* the timeout timer: none | armed | fired | cleared
     grace |-> "none",         \* the 1000 ms SIGKILL timer: none | armed | fired
     timedOut |-> FALSE,       \* the local flag timedOut
     killed |-> FALSE,         \* proc.killed: a signal was delivered by kill()
     elapsed |-> FALSE,        \* the timeout has elapsed since the spawn
     runningAtDeadline |-> FALSE]  \* the child was running when it elapsed

\* process.env of the wt process: what the user's shell exported.  The second
\* one is a shell that exported WT_ variables itself (the shell of a hook)
BaseEnv == [PATH |-> "/usr/bin"]
ProcessEnvs ==
    {BaseEnv,
     [PATH |-> "/usr/bin", WT_NAME |-> "stale", WT_OLD_NAME |-> "stale",
      WT_OLD_PATH |-> <<"stale">>]}

\* lines 156 and 216: env: { ...process.env, ...options?.env }
SpreadEnv(processEnv, optionsEnv) == optionsEnv @@ processEnv

PxActive == px.phase \in {"racing", "awaitExit", "running"}

Result(success, code, timedOut, stderr) ==
    [success |-> success, exitCode |-> code, timedOut |-> timedOut,
     stderr |-> stderr]

\* the result both runtimes build for a timeout
TimeoutResult == Result(FALSE, TIMEOUT_EXIT, TRUE, "timeout message")

\* Node: exitCode = code ?? 1; Bun: exitCode = await proc.exited
ExitResult(p) ==
    LET c == IF p.bySignal THEN 1 ELSE p.code
    IN Result(c = 0, c, FALSE, "output")

\* the result of the Node 'error' handler
ErrorResult == Result(FALSE, 1, FALSE, "err.message")

\* LoopAfter without the break of lines 196-198
LoopAfterNoBreak(h, r) ==
    IF h.i = Len(h.cfg.commands) THEN [h EXCEPT !.state = "returned"]
    ELSE [h EXCEPT !.i = h.i + 1]

\* executeHook, lines 175-199: the loop body after the command's result r
LoopAfter(h, r) ==
    IF ~r.success /\ ~h.cfg.continueOnError THEN [h EXCEPT !.state = "returned"]
    ELSE IF h.i = Len(h.cfg.commands) THEN [h EXCEPT !.state = "returned"]
    ELSE [h EXCEPT !.i = h.i + 1]

WarningOf(r) ==
    IF r.success THEN <<>>
    ELSE IF r.timedOut THEN <<"timed out">> ELSE <<"command failed">>

\* execShellCommand returns r to runHookCommand and executeHook goes on
Deliver(r) ==
    /\ results' = Append(results, r)
    /\ warnings' = warnings \o WarningOf(r)
    /\ hk' = LoopAfter(hk, r)

\* execShellCommand raises: nothing in runHookCommand or executeHook catches it
Raise ==
    /\ hk' = [hk EXCEPT !.state = "raised"]
    /\ UNCHANGED <<results, warnings>>

execFrame ==
    UNCHANGED <<isBun, config, resolved, gitNames, cli, exitCode, stdout, runs,
                tuiVars, call, prefVars, appVars>>

\* executeHook line 175 -> runHookCommand -> execShellCommand up to its first
\* await.  ok: the shell could be spawned in cwd.
ExecStart ==
    /\ hk.state = "running"
    /\ px.phase \in {"none", "done"}
    /\ executed' = Append(executed,
            [command |-> hk.cfg.commands[hk.i], hookType |-> hk.type,
             env |-> SpreadEnv(cli.penv, hk.env), cwd |-> hk.cwd,
             timeout |-> hk.cfg.timeout])
    /\ \E ok \in BOOLEAN, ign \in BOOLEAN :
        IF ok THEN
            /\ px' = [PxIdle EXCEPT
                        !.phase = IF isBun THEN "racing" ELSE "running",
                        !.alive = TRUE, !.streamsOpen = TRUE,
                        !.ignoresTerm = ign, !.timer = "armed"]
            /\ UNCHANGED <<hk, results, warnings>>
        ELSE IF isBun THEN
            \* Bun.spawn throws, outside any try
            /\ ign = FALSE
            /\ px' = [PxIdle EXCEPT !.phase = "done", !.outcome = "raised"]
            /\ Raise
        ELSE
            \* Node: the 'error' event resolves the promise
            /\ ign = FALSE
            /\ px' = [PxIdle EXCEPT !.phase = "done", !.outcome = "returned",
                                    !.timer = "cleared"]
            /\ Deliver(ErrorResult)
    /\ execFrame

\* The child ends by itself with exit code c.
ProcExit ==
    /\ PxActive /\ px.alive
    /\ \E c \in {0, 1} :
        px' = [px EXCEPT !.alive = FALSE, !.streamsOpen = FALSE, !.code = c]
    /\ UNCHANGED <<hk, executed, results, warnings>>
    /\ execFrame

\* The child closes or redirects its stdout and stderr and keeps running.
ProcCloseStreams ==
    /\ PxActive /\ px.alive /\ px.streamsOpen
    /\ px' = [px EXCEPT !.streamsOpen = FALSE]
    /\ UNCHANGED <<hk, executed, results, warnings>>
    /\ execFrame

\* The child after a SIGTERM delivered by kill()
Termed(p) ==
    IF p.alive /\ ~p.ignoresTerm
    THEN [p EXCEPT !.alive = FALSE, !.streamsOpen = FALSE, !.bySignal = TRUE]
    ELSE p

\* The timeout elapses.  The timer callback runs unless clearTimeout came first.
Deadline ==
    /\ PxActive /\ ~px.elapsed
    /\ LET p == [px EXCEPT !.elapsed = TRUE, !.runningAtDeadline = px.alive]
       IN IF px.timer # "armed" THEN
              /\ px' = p
              /\ UNCHANGED <<hk, results, warnings>>
          ELSE IF isBun THEN
              \* lines 166-170, then the catch of lines 194-205
              /\ px' = [Termed(p) EXCEPT !.timedOut = TRUE, !.killed = px.alive,
                           !.timer = "fired", !.phase = "done",
                           !.outcome = "returned"]
              /\ Deliver(TimeoutResult)
          ELSE
              \* lines 223-231
              /\ px' = [Termed(p) EXCEPT !.timedOut = TRUE, !.killed = px.alive,
                           !.timer = "fired", !.grace = "armed"]
              /\ UNCHANGED <<hk, results, warnings>>
    /\ UNCHANGED executed
    /\ execFrame

\* Node, lines 226-230: one second after the timeout
NodeGrace ==
    /\ ~isBun /\ px.grace = "armed"
    /\ px' = IF ~px.killed /\ px.alive
             THEN [px EXCEPT !.grace = "fired", !.alive = FALSE,
                             !.streamsOpen = FALSE, !.bySignal = TRUE,
                             !.killed = TRUE]
             ELSE [px EXCEPT !.grace = "fired"]
    /\ UNCHANGED <<hk, executed, results, warnings>>
    /\ execFrame

\* Node, lines 241-261: the 'close' event
NodeClose ==
    /\ px.phase = "running" /\ ~px.alive /\ ~px.streamsOpen
    /\ px' = [px EXCEPT !.phase = "done", !.outcome = "returned",
                        !.timer = IF px.timer = "armed" THEN "cleared" ELSE px.timer]
    /\ Deliver(IF px.timedOut THEN TimeoutResult ELSE ExitResult(px))
    /\ UNCHANGED executed
    /\ execFrame

\* Bun, lines 174-183: both streams were read to their end
BunStreamsDone ==
    /\ px.phase = "racing" /\ ~px.streamsOpen
    /\ px' = [px EXCEPT !.phase = "awaitExit", !.timer = "cleared"]
    /\ UNCHANGED <<hk, executed, results, warnings>>
    /\ execFrame

\* Bun, lines 194-207: reading a stream fails; timedOut is false
BunReadFail ==
    /\ px.phase = "racing"
    /\ px' = [px EXCEPT !.phase = "done", !.outcome = "raised",
                        !.timer = "cleared"]
    /\ Raise
    /\ UNCHANGED executed
    /\ execFrame

\* Bun, lines 185-193: proc.exited resolves
BunExited ==
    /\ px.phase = "awaitExit" /\ ~px.alive
    /\ px' = [px EXCEPT !.phase = "done", !.outcome = "returned"]
    /\ Deliver(ExitResult(px))
    /\ UNCHANGED executed
    /\ execFrame

ExecNext ==
    \/ ExecStart \/ ProcExit \/ ProcCloseStreams \/ Deadline \/ NodeGrace
    \/ NodeClose \/ BunStreamsDone \/ BunReadFail \/ BunExited

------------------------------------------------------------------------------
(* lib/paths.ts, lib/constants.ts *)

\* Worktree names of the model and their spelling, character by character
Names == {"feat", "fix", ".."}
Primary == "main"

\* worktree.isPrimary of a worktree that never is the primary one
isPrimaryNever(name) == FALSE

\* worktree.isPrimary, as listWorktrees sets it from checkPrimaryWorktree
isPrimary(name) == name = Primary
Spell == ("feat" :> <<"f", "e", "a", "t">>) @@ ("fix" :> <<"f", "i", "x">>)
         @@ (".." :> <<".", ".">>) @@ ("main" :> <<"m", "a", "i", "n">>)

\* VALID_NAME_REGEX = /^[a-zA-Z0-9_-]+$/ over the characters the model spells
NameChars == {"a", "e", "f", "i", "m", "n", "t", "x", "_", "-"}
VALID_NAME(n) == Len(Spell[n]) >= 1 /\ \A k \in 1..Len(Spell[n]) : Spell[n][k] \in NameChars
RESERVED_NAMES == {".", "..", ".git", "HEAD"}
MAX_NAME_LENGTH == 50

\* Paths are sequences of segments
Home == <<"home">>
expandHome(path) ==
    IF path # <<>> /\ Head(path) = "~" THEN Home \o Tail(path) ELSE path

\* node:path join: concatenates and resolves "." and ".." segments
RECURSIVE Normalize(_, _)
Normalize(todo, acc) ==
    IF todo = <<>> THEN acc
    ELSE IF Head(todo) = "." THEN Normalize(Tail(todo), acc)
    ELSE IF Head(todo) = ".." THEN
        Normalize(Tail(todo), IF acc = <<>> THEN acc ELSE SubSeq(acc, 1, Len(acc) - 1))
    ELSE Normalize(Tail(todo), Append(acc, Head(todo)))
join(a, b) == Normalize(a \o b, <<>>)

resolveWorktreePath(repoId, worktreeName, baseDir) ==
    join(baseDir, <<repoId, worktreeName>>)

------------------------------------------------------------------------------
(* lib/config.ts: getConfig *)

\* an absent string field
UndefStr == "<undefined>"
DefaultBase == <<"~", ".worktrees">>
RepoId == "github.com-user-repo"
OtherRepoId == "github.com-user-other"

\* a ?? b for string fields, path fields and hook fields
CoalesceStr(a, b) == IF a = UndefStr THEN b ELSE a
CoalescePath(a, b) == IF a = <<>> THEN b ELSE a
\* the operands of ?? swapped: the global hook wins
CoalesceHookGlobalFirst(a, b) == IF b.kind = "undefined" THEN a ELSE b
CoalesceHook(a, b) == IF a.kind = "undefined" THEN b ELSE a

\* config.repos?.[repoId]; every field of the absent override is absent
NoOverride == [branchPrefix |-> UndefStr, base |-> <<>>,
               comparisonBranch |-> UndefStr, hooks |-> NoHooks]
RepoOverride(cfg, repoId) ==
    IF repoId \in DOMAIN cfg.repos THEN cfg.repos[repoId] ELSE NoOverride

getConfig(cfg, repoId) ==
    LET repoOverride == RepoOverride(cfg, repoId)
        globalHooks == cfg.hooks
        repoHooks == repoOverride.hooks
    IN [branchPrefix |-> CoalesceStr(repoOverride.branchPrefix, cfg.branchPrefix),
        worktreeBase |-> expandHome(CoalescePath(repoOverride.base, cfg.base)),
        comparisonBranch |->
            CoalesceStr(repoOverride.comparisonBranch, cfg.comparisonBranch),
        hooks |-> [t \in HookTypes |->
                      CoalesceHook(repoHooks[t], globalHooks[t])]]

\* DEFAULT_CONFIG
DEFAULT_CONFIG ==
    [base |-> DefaultBase, branchPrefix |-> "", staleDays |-> 30,
     comparisonBranch |-> UndefStr, hooks |-> NoHooks, repos |-> <<>>]

\* no result of getConfig yet (a result always has a worktreeBase)
Unresolved == [branchPrefix |-> UndefStr, worktreeBase |-> <<>>,
               comparisonBranch |-> UndefStr, hooks |-> NoHooks]

------------------------------------------------------------------------------
(* lib/hooks.ts: executeHook, entry *)

HkIdle == [state |-> "idle", type |-> "none", cfg |-> Null, env |-> <<>>,
           cwd |-> <<>>, i |-> 0]

\* executeHook lines 162-172; cwdOverride <<>> stands for the absent argument.
\* The activation returns at once when there is nothing to run.
executeHook(hookType, hookConfig, context, cwdOverride) ==
    LET normalized == normalizeHookConfig(hookConfig)
    IN IF normalized.isNull \/ Len(normalized.commands) = 0
       THEN [HkIdle EXCEPT !.state = "returned", !.type = hookType]
       ELSE [state |-> "running", type |-> hookType, cfg |-> normalized,
             env |-> buildHookEnv(hookType, context),
             cwd |-> IF cwdOverride # <<>> THEN cwdOverride ELSE context.path,
             i |-> 1]

------------------------------------------------------------------------------
(* commands/new.ts, rm.ts, mv.ts, cd.ts *)

\* where git keeps the worktree of a name
RepoRoot == <<"repo">>
PathOf(name, base) ==
    IF name = Primary THEN RepoRoot ELSE resolveWorktreePath(RepoId, name, base)

\* what the git queries of a command meet: a repository, no repository, or
\* no git binary at all
GitEnvs == {"ok", "notRepo", "noGit"}

CliIdle == [cmd |-> "none", phase |-> "idle", name |-> "", newName |-> "",
            cwd |-> Primary, opDone |-> FALSE, penv |-> BaseEnv]

CanStart == cli.phase \in {"idle", "exited"} /\ runs < MaxRuns

\* a fresh process: nothing of the previous invocation's hook remains
Fresh ==
    /\ runs' = runs + 1
    /\ px' = PxIdle
    /\ executed' = <<>>
    /\ results' = <<>>
    /\ warnings' = <<>>

cliFrame == UNCHANGED <<isBun, config, tuiVars, call, prefVars, appVars>>

\* process.exit(code), or the end of the command (code 0)
Exit(c, code, out) ==
    /\ cli' = [c EXCEPT !.phase = "exited"]
    /\ exitCode' = code
    /\ stdout' = out
    /\ hk' = HkIdle

\* the command awaits executeHook
Await(c, h, out) ==
    /\ hk' = h
    /\ stdout' = out
    /\ IF h.state = "returned"
       THEN cli' = [c EXCEPT !.phase = "exited"] /\ exitCode' = 0
       ELSE cli' = [c EXCEPT !.phase = "hook"] /\ exitCode' = exitCode

\* wt new <name> [--detach], run in worktree cwd
CliNew ==
    /\ CanStart /\ Fresh
    /\ \E name \in Names, cwd \in gitNames, detach \in BOOLEAN,
          env \in GitEnvs, opOk \in BOOLEAN, penv \in ProcessEnvs :
        LET c == [CliIdle EXCEPT !.cmd = "new", !.name = name, !.cwd = cwd,
                                 !.penv = penv]
            conf == getConfig(config, RepoId)
            worktreePath == resolveWorktreePath(RepoId, name, conf.worktreeBase)
            branch == IF detach THEN <<>> ELSE <<conf.branchPrefix, name>>
            hookConfig == getHookConfig(conf.hooks, "post-create")
        IN IF \/ ~VALID_NAME(name)
              \/ Len(Spell[name]) > MAX_NAME_LENGTH
              \/ name \in RESERVED_NAMES
              \/ env # "ok"
              \/ name \in gitNames
           THEN /\ Exit(c, 1, <<>>) /\ UNCHANGED <<gitNames, resolved>>
                /\ detach = FALSE /\ opOk = FALSE /\ penv = BaseEnv
           ELSE IF ~opOk
           THEN /\ Exit(c, 1, <<>>) /\ resolved' = conf /\ UNCHANGED gitNames
                /\ detach = FALSE /\ penv = BaseEnv
           ELSE /\ gitNames' = gitNames \cup {name}
                /\ resolved' = conf
                /\ IF Truthy(hookConfig)
                   THEN Await([c EXCEPT !.opDone = TRUE],
                              executeHook("post-create", hookConfig,
                                  Context(name, worktreePath, branch, RepoId, "", <<>>),
                                  <<>>),
                              <<"Created worktree">>)
                   ELSE /\ Exit([c EXCEPT !.opDone = TRUE], 0, <<"Created worktree">>)
                        /\ penv = BaseEnv
    /\ cliFrame

\* wt rm <name>, run in worktree cwd
CliRm ==
    /\ CanStart /\ Fresh
    /\ \E name \in Names \cup {Primary}, cwd \in gitNames,
          env \in GitEnvs, opOk \in BOOLEAN, penv \in ProcessEnvs :
        LET c == [CliIdle EXCEPT !.cmd = "rm", !.name = name, !.cwd = cwd,
                                 !.penv = penv]
            conf == getConfig(config, RepoId)
            \* getRepoInfo: worktreeRoot is the top level of the worktree wt runs in
            worktreeRoot == PathOf(cwd, conf.worktreeBase)
            deletedWorktreePath == PathOf(name, conf.worktreeBase)
            hookConfig == getHookConfig(conf.hooks, "post-delete")
        IN IF env # "ok" \/ name \notin gitNames \/ isPrimary(name)
           THEN /\ Exit(c, 1, <<>>) /\ UNCHANGED <<gitNames, resolved>>
                /\ opOk = FALSE /\ penv = BaseEnv
           ELSE IF ~opOk
           THEN /\ Exit(c, 1, <<>>) /\ resolved' = conf /\ UNCHANGED gitNames
                /\ penv = BaseEnv
           ELSE /\ gitNames' = gitNames \ {name}
                /\ resolved' = conf
                /\ IF Truthy(hookConfig)
                   THEN Await([c EXCEPT !.opDone = TRUE],
                              executeHook("post-delete", hookConfig,
                                  Context(name, deletedWorktreePath,
                                          <<conf.branchPrefix, name>>, RepoId, "", <<>>),
                                  worktreeRoot),
                              <<"Removed worktree">>)
                   ELSE /\ Exit([c EXCEPT !.opDone = TRUE], 0, <<"Removed worktree">>)
                        /\ penv = BaseEnv
    /\ cliFrame

\* wt mv <old> <new>, run in the primary worktree
CliMv ==
    /\ CanStart /\ Fresh
    /\ \E oldName \in Names \cup {Primary}, newName \in Names,
          env \in GitEnvs, opOk \in BOOLEAN :
        LET c == [CliIdle EXCEPT !.cmd = "mv", !.name = oldName,
                                 !.newName = newName]
            conf == getConfig(config, RepoId)
        IN IF \/ env # "ok"
              \/ oldName \notin gitNames
              \/ isPrimary(oldName)
              \/ newName \in gitNames
           THEN /\ Exit(c, 1, <<>>) /\ UNCHANGED <<gitNames, resolved>>
                /\ opOk = FALSE
           ELSE IF ~opOk
           THEN /\ Exit(c, 1, <<>>) /\ resolved' = conf /\ UNCHANGED gitNames
           ELSE /\ gitNames' = (gitNames \ {oldName}) \cup {newName}
                /\ resolved' = conf
                /\ Exit([c EXCEPT !.opDone = TRUE], 0, <<"Renamed worktree">>)
    /\ cliFrame

\* wt cd <name>, run in the primary worktree
CliCd ==
    /\ CanStart /\ Fresh
    /\ \E name \in Names \cup {Primary}, env \in GitEnvs :
        LET c == [CliIdle EXCEPT !.cmd = "cd", !.name = name]
        IN IF env # "ok" \/ name \notin gitNames
           THEN Exit(c, 1, <<>>)
           ELSE Exit([c EXCEPT !.opDone = TRUE], 0, <<"path">>)
    /\ UNCHANGED <<gitNames, resolved>>
    /\ cliFrame

\* executeHook has returned to, or raised into, the command that awaited it:
\* the catch of new.ts lines 124-129 and rm.ts lines 205-210 exits with 1
CliHookDone ==
    /\ cli.phase = "hook"
    /\ hk.state \in {"returned", "raised"}
    /\ cli' = [cli EXCEPT !.phase = "exited"]
    /\ exitCode' = IF hk.state = "raised" THEN 1 ELSE 0
    /\ UNCHANGED <<hk, px, executed, results, warnings, runs, stdout, gitNames,
                   resolved>>
    /\ cliFrame

CliNext == CliNew \/ CliRm \/ CliMv \/ CliCd \/ CliHookDone

------------------------------------------------------------------------------
(* lib/types.ts: WorktreeWithStatus, as far as the list shows it *)

\* ahead?: number, behind?: number -- the absent count
NoCount == -1

StatusRec(status, ahead, behind) ==
    [status |-> status, ahead |-> ahead, behind |-> behind]

\* { ...wt, status: [] }: the entry of a worktree whose status is not known
Unknown == StatusRec({}, NoCount, NoCount)

\* results of getWorktreeStatus the list is refreshed with
StatusResults ==
    {StatusRec({"synced"}, 0, 0), StatusRec({"dirty", "ahead"}, 1, 0)}

------------------------------------------------------------------------------
(* The configurations, runtimes and repositories wt is run with *)

Cfg(g, r) ==
    [DEFAULT_CONFIG EXCEPT
        !.hooks = [t \in HookTypes |-> g],
        !.repos = (RepoId :> [NoOverride EXCEPT !.hooks = [t \in HookTypes |-> r]])]

CliGlobalHooks ==
    {Undefined, HStr("A"), HArr(<<"A", "B", "C">>),
     HObjArr(<<"A", "B", "C">>, NoTimeout, "true"), HObjStr("A", 5, "false")}
CliRepoHooks == {Undefined, HArr(<<"B", "C">>)}
\* every global hook without an override, and one global hook under each
\* override (an override hides whatever the global hook is)
CliConfigs ==
    {Cfg(g, Undefined) : g \in CliGlobalHooks}
    \cup {Cfg(HStr("A"), r) : r \in CliRepoHooks}

\* no library function is called on its own
NoCall == [fn |-> "none", done |-> TRUE]

\* no DeleteConfirm dialog is open
NoDialog == [target |-> "", error |-> ""]

\* lib/preferences: the savePreferences calls of one process.  Saver c saves
\* the single key c; the file is the set of keys it holds.
MaxSavers == 3
Savers == 1..MaxSavers

\* writeLock = null; the lock promise created by saver c is identified by c
NoLock == 0

SaverIdle == [pc |-> "idle", waitsOn |-> NoLock, existing |-> {}, temp |-> {}]

\* the module is loaded and no call was made: let writeLock = null
PrefsInit ==
    /\ writeLock = NoLock
    /\ released = {}
    /\ prefsFile = {}
    /\ savers = [c \in Savers |-> SaverIdle]

\* App.tsx line 76: what % yields for a zero divisor, and stays under + and %
NaN == -1

\* exit() was not called
NoQuit == [done |-> FALSE, selectedPath |-> UndefStr, listed |-> {}]

\* App.tsx lines 34-40: the useState initial values, for a given currentPath
AppMounted(cur) ==
    /\ selectedIndex = 0
    /\ activeDialog = "none"
    /\ initialSelectionDone = FALSE
    /\ destinationPath = cur
    /\ currentPath = cur
    /\ quit = NoQuit

\* the App component without a currentPath and without key presses
AppIdle == AppMounted(UndefStr)

TuiInit ==
    /\ dialog = NoDialog
    /\ worktrees = [n \in {} |-> Unknown]
    /\ isLoading = TRUE
    /\ error = FALSE
    /\ fetches = {}
    /\ applied = {}
    /\ started = 0

CliInit ==
    /\ cli = CliIdle
    /\ exitCode = 0
    /\ stdout = <<>>
    /\ hk = HkIdle
    /\ px = PxIdle
    /\ executed = <<>>
    /\ results = <<>>
    /\ warnings = <<>>
    /\ runs = 0

InitCli ==
    /\ isBun \in BOOLEAN
    /\ config \in CliConfigs
    /\ resolved = Unresolved
    /\ gitNames \in {{Primary}, {Primary, "feat"}}
    /\ CliInit
    /\ PrefsInit
    /\ AppIdle
    /\ TuiInit
    /\ call = NoCall

NextCli == CliNext \/ ExecNext

SpecCli == InitCli /\ [][NextCli]_vars

------------------------------------------------------------------------------
(* Properties of the hook engine and the process executor, under SpecCli *)

\* the commands handed to the shell so far, in order
Commands == [k \in 1..Len(executed) |-> executed[k].command]

HookActive == hk.state \in {"running", "returned", "raised"} /\ ~hk.cfg.isNull
HookEnded == hk.state \in {"returned", "raised"} /\ ~hk.cfg.isNull

\* C1: with continueOnError false the commands run one at a time in the
\* configured order, and no command is run after the first one that fails
C1_StopsAtFirstFailure ==
    (HookActive /\ ~hk.cfg.continueOnError) =>
        /\ Len(executed) <= Len(hk.cfg.commands)
        /\ Commands = SubSeq(hk.cfg.commands, 1, Len(executed))
        /\ Len(executed) <= Len(results) + 1
        /\ \A k \in 1..Len(results) : ~results[k].success => Len(executed) = k

\* [A, B, C] with continueOnError false, A succeeded and B failed
C1_Witness ==
    /\ hk.state = "returned" /\ ~hk.cfg.continueOnError
    /\ hk.cfg.commands = <<"A", "B", "C">>
    /\ Len(results) = 2 /\ results[1].success /\ ~results[2].success
    /\ Commands = <<"A", "B">>

\* C2: with continueOnError true, once executeHook has ended every configured
\* command was run exactly once, in the configured order
C2_AllCommandsRun ==
    (HookEnded /\ hk.cfg.continueOnError) => Commands = hk.cfg.commands

\* C3: a failing hook command never makes the operation fail: executeHook
\* does not raise, and wt new / wt rm exit with 0 once the worktree was
\* created or removed
C3_HookFailureNeverFailsCommand ==
    /\ hk.state # "raised"
    /\ (cli.phase = "exited" /\ cli.cmd \in {"new", "rm"} /\ cli.opDone)
          => exitCode = 0

\* C6: a command that was still running when its timeout elapsed is reported
\* with timedOut = true, success = false and exit code 124
C6_TimeoutReported ==
    (px.outcome = "returned" /\ px.runningAtDeadline) =>
        LET r == results[Len(results)]
        IN r.timedOut /\ ~r.success /\ r.exitCode = TIMEOUT_EXIT

\* C7: execShellCommand never raises; every failure is a result with
\* success = false
C7_ExecutorNeverRaises ==
    /\ px.outcome # "raised"
    /\ \A k \in 1..Len(results) :
          results[k].stderr = "err.message" => ~results[k].success

\* C8: after wt mv old new has renamed the worktree, the configured
\* post-rename hook was run exactly once, with WT_NAME = new, WT_OLD_NAME = old
\* and WT_OLD_PATH = the previous path
C8_RenameHookRuns ==
    (/\ cli.phase = "exited" /\ cli.cmd = "mv" /\ cli.opDone
     /\ Len(normalizeHookConfig(resolved.hooks["post-rename"]).commands) > 0)
    => /\ Len(executed) = Len(normalizeHookConfig(resolved.hooks["post-rename"]).commands)
       /\ \A k \in 1..Len(executed) :
            /\ executed[k].hookType = "post-rename"
            /\ executed[k].env.WT_NAME = cli.newName
            /\ "WT_OLD_NAME" \in DOMAIN executed[k].env
            /\ executed[k].env.WT_OLD_NAME = cli.name
            /\ "WT_OLD_PATH" \in DOMAIN executed[k].env
            /\ executed[k].env.WT_OLD_PATH = PathOf(cli.name, resolved.worktreeBase)

\* C9: after wt cd name has switched to a worktree, the configured
\* post-select hook was run with that worktree's name and path
C9_SelectHookRuns ==
    (/\ cli.phase = "exited" /\ cli.cmd = "cd" /\ cli.opDone
     /\ Len(normalizeHookConfig(getConfig(config, RepoId).hooks["post-select"]).commands) > 0)
    => \E k \in 1..Len(executed) :
            /\ executed[k].hookType = "post-select"
            /\ executed[k].env.WT_NAME = cli.name
            /\ executed[k].env.WT_PATH =
                   PathOf(cli.name, getConfig(config, RepoId).worktreeBase)

\* C11: the environment every hook command receives holds WT_NAME, WT_PATH,
\* WT_BRANCH, WT_REPO_ID and WT_HOOK of the invocation, and holds WT_OLD_NAME
\* and WT_OLD_PATH only when the hook is post-rename
C11_HookEnvironment ==
    \A k \in 1..Len(executed) :
        LET e == executed[k].env
        IN /\ {"WT_NAME", "WT_PATH", "WT_BRANCH", "WT_REPO_ID", "WT_HOOK"}
                 \subseteq DOMAIN e
           /\ e.WT_NAME = cli.name
           /\ e.WT_PATH = PathOf(cli.name, resolved.worktreeBase)
           /\ e.WT_REPO_ID = RepoId
           /\ e.WT_HOOK = executed[k].hookType
           /\ executed[k].hookType # "post-rename" =>
                 {"WT_OLD_NAME", "WT_OLD_PATH"} \cap DOMAIN e = {}

------------------------------------------------------------------------------
(* tui/hooks/useWorktrees.ts and the dialogs of tui/App.tsx *)

TuiNames == {"feat", "fix"}

Fetch(id, phase, list, got, before) ==
    [id |-> id, phase |-> phase, list |-> list, got |-> got, before |-> before]

NoEntries == [n \in {} |-> Unknown]

\* git worktree list prints the primary worktree first
ListOrder == <<Primary, "feat", "fix">>

\* the array worktrees of App.tsx: the displayed names in listing order
ListOf(ws) == SelectSeq(ListOrder, LAMBDA n : n \in DOMAIN ws)

\* worktrees.findIndex of App.tsx lines 46-49: cur is the worktree the
\* current directory lies in
FindIndex(list, cur) ==
    IF \E k \in 1..Len(list) : list[k] = cur
    THEN (CHOOSE k \in 1..Len(list) : list[k] = cur) - 1
    ELSE -1

\* App.tsx line 64: worktrees[selectedIndex], a name or undefined
SelectedOf(list, i) ==
    IF i # NaN /\ i >= 0 /\ i < Len(list) THEN list[i + 1] ELSE UndefStr

\* App.tsx lines 58-62: the effect that keeps the selection in bounds
KeepInBounds(i, len) ==
    IF i # NaN /\ i >= len /\ len > 0 THEN len - 1 ELSE i

\* App.tsx lines 43-55: the effect that selects the current worktree once
InitialIndex(i, list) ==
    IF ~initialSelectionDone /\ Len(list) > 0 /\ currentPath # UndefStr
         /\ FindIndex(list, currentPath) # -1
    THEN FindIndex(list, currentPath)
    ELSE i

\* The effects of App.tsx after a render with selectedIndex i and the
\* displayed worktrees ws
Effects(i, ws) ==
    LET list == ListOf(ws)
    IN /\ selectedIndex' = KeepInBounds(InitialIndex(i, list), Len(list))
       /\ initialSelectionDone' =
             (initialSelectionDone
              \/ (Len(list) > 0 /\ currentPath # UndefStr))

appFrame == UNCHANGED <<isBun, config, resolved, cliVars, call, prefVars,
                        currentPath>>

\* what a step of useWorktrees leaves alone; the App re-renders with the new
\* worktrees and its effects run
tuiFrame ==
    /\ appFrame
    /\ UNCHANGED <<activeDialog, destinationPath, quit>>
    /\ Effects(selectedIndex, worktrees')

\* fetchWorktrees lines 19-25, up to the await of listWorktrees
StartFetch ==
    /\ started < MaxFetches
    /\ started' = started + 1
    /\ isLoading' = TRUE
    /\ error' = FALSE
    /\ fetches' = fetches \cup {Fetch(started + 1, "listing", {}, NoEntries, NoEntries)}

\* refresh() called on its own (SettingsDialog onSaved)
Refresh ==
    /\ StartFetch
    /\ UNCHANGED <<worktrees, applied, gitNames, dialog>>
    /\ tuiFrame

\* CreateDialog handleCreate, then handleCreated: refresh()
TuiCreate ==
    /\ \E name \in TuiNames \ gitNames :
          gitNames' = gitNames \cup {name}
    /\ StartFetch
    /\ UNCHANGED <<worktrees, applied, dialog>>
    /\ tuiFrame

\* DeleteConfirm handleDelete on a displayed worktree, then handleDeleted:
\* refresh()
TuiDelete ==
    /\ \E name \in DOMAIN worktrees \cap gitNames :
          /\ Primary \in DOMAIN worktrees
          /\ IF isPrimary(name)
             THEN \* lines 47-50: setError, return
                  /\ dialog' = [target |-> name,
                                error |-> "Cannot delete primary worktree"]
                  /\ UNCHANGED <<gitNames, isLoading, error, fetches, started>>
             ELSE \* lines 52-75: removeWorktree, onDeleted closes the dialog
                  /\ gitNames' = gitNames \ {name}
                  /\ dialog' = NoDialog
                  /\ StartFetch
    /\ UNCHANGED <<worktrees, applied>>
    /\ tuiFrame

\* listWorktrees resolves with what git reports now, or throws (lines 79-82)
FetchListed ==
    /\ \E f \in fetches, ok \in BOOLEAN :
        /\ f.phase = "listing"
        /\ IF ok
           THEN /\ fetches' = (fetches \ {f}) \cup {[f EXCEPT !.phase = "config",
                                                              !.list = gitNames]}
                /\ UNCHANGED <<error, isLoading>>
           ELSE /\ fetches' = fetches \ {f}
                /\ error' = TRUE
                /\ isLoading' = FALSE
    /\ UNCHANGED <<worktrees, applied, started, gitNames, dialog>>
    /\ tuiFrame

\* lines 48-54: after getRepoInfo and getConfig, the list is shown without status
FetchApply ==
    /\ \E f \in fetches :
        /\ f.phase = "config"
        /\ worktrees' = [n \in f.list |-> Unknown]
        /\ isLoading' = FALSE
        /\ applied' = f.list
        /\ fetches' = (fetches \ {f}) \cup {[f EXCEPT !.phase = "status",
                                                       !.before = worktrees]}
    /\ UNCHANGED <<error, started, gitNames, dialog>>
    /\ tuiFrame

\* lines 58-75: the status query of one worktree completes, or throws
StatusDone ==
    /\ \E f \in fetches :
        /\ f.phase = "status"
        /\ \E n \in f.list \ DOMAIN f.got, r \in StatusResults \cup {Unknown} :
              fetches' = (fetches \ {f}) \cup {[f EXCEPT !.got = (n :> r) @@ f.got]}
    /\ UNCHANGED <<worktrees, isLoading, error, applied, started, gitNames, dialog>>
    /\ tuiFrame

\* lines 57 and 78: Promise.all resolves, setWorktrees(withStatus)
FetchFinish ==
    /\ \E f \in fetches :
        /\ f.phase = "status"
        /\ DOMAIN f.got = f.list
        /\ worktrees' = [n \in f.list |-> f.got[n]]
        /\ fetches' = fetches \ {f}
    /\ UNCHANGED <<isLoading, error, applied, started, gitNames, dialog>>
    /\ tuiFrame

\* the TUI is mounted: useEffect calls fetchWorktrees (lines 85-87)
InitTui ==
    /\ isBun \in BOOLEAN
    /\ config = DEFAULT_CONFIG
    /\ resolved = Unresolved
    /\ gitNames \in {{Primary}, {Primary, "feat"}}
    /\ CliInit
    /\ PrefsInit
    /\ AppIdle
    /\ worktrees = NoEntries
    /\ isLoading = TRUE
    /\ error = FALSE
    /\ fetches = {Fetch(1, "listing", {}, NoEntries, NoEntries)}
    /\ applied = {}
    /\ started = 1
    /\ dialog = NoDialog
    /\ call = NoCall

NextTui ==
    \/ Refresh \/ TuiCreate \/ TuiDelete
    \/ FetchListed \/ FetchApply \/ StatusDone \/ FetchFinish

SpecTui == InitTui /\ [][NextTui]_vars

\* C4: while a refresh waits for the new status of a worktree that was on
\* display with a status before the refresh and still exists, the worktree
\* keeps a displayed status: it is never shown without one
C4_StatusKeptDuringRefresh ==
    \A f \in fetches :
        f.phase = "status" =>
            \A n \in (f.list \cap DOMAIN f.before \cap DOMAIN worktrees) \ DOMAIN f.got :
                f.before[n] # Unknown => worktrees[n] # Unknown

\* C5: a worktree that no longer exists and that the listing most recently
\* put on display lacks is not displayed: once that listing is applied, the
\* completion of a status fetch never puts the dropped worktree back
C5_DroppedStaysDropped ==
    \A n \in DOMAIN worktrees : n \in applied \/ n \in gitNames

------------------------------------------------------------------------------
(* lib/config.ts: getConfig over configuration files *)

GlobalHookValues == {Undefined, HStr("A"), HArr(<<"A", "B">>)}
RepoHookValues == {Undefined, HStr(""), HArr(<<"C">>)}

\* configuration files with an override for this repository, for another
\* repository, or for none
ConfigSpace ==
    {[DEFAULT_CONFIG EXCEPT !.hooks = g,
                            !.repos = (RepoId :> [NoOverride EXCEPT !.hooks = r])] :
        g \in [HookTypes -> GlobalHookValues], r \in [HookTypes -> RepoHookValues]}
    \cup
    {[DEFAULT_CONFIG EXCEPT !.hooks = g,
                            !.repos = (OtherRepoId :> [NoOverride EXCEPT
                                          !.hooks = [t \in HookTypes |-> HArr(<<"C">>)]])] :
        g \in [HookTypes -> GlobalHookValues]}
    \cup
    {[DEFAULT_CONFIG EXCEPT !.hooks = g] : g \in [HookTypes -> GlobalHookValues]}

InitConfig ==
    /\ isBun \in BOOLEAN
    /\ config \in ConfigSpace
    /\ resolved = Unresolved
    /\ gitNames = {Primary}
    /\ CliInit
    /\ PrefsInit
    /\ AppIdle
    /\ TuiInit
    /\ call = NoCall

\* a command of this repository calls getConfig
GetConfig ==
    /\ resolved = Unresolved
    /\ resolved' = getConfig(config, RepoId)
    /\ UNCHANGED <<isBun, config, gitNames, cliVars, tuiVars, call, prefVars,
                    appVars>>

NextConfig == GetConfig

SpecConfig == InitConfig /\ [][NextConfig]_vars

\* the override this repository has for a hook type, Undefined when none
OverrideHook(t) ==
    IF RepoId \in DOMAIN config.repos THEN config.repos[RepoId].hooks[t]
    ELSE Undefined

CommandsOf(h) == normalizeHookConfig(h).commands

\* C10: for each hook type the effective hook is the repository's override
\* when there is one and the global hook otherwise; its command list is the
\* list of one of the two, never a combination
C10_OverrideReplaces ==
    resolved # Unresolved =>
        \A t \in HookTypes :
            /\ OverrideHook(t) # Undefined => resolved.hooks[t] = OverrideHook(t)
            /\ OverrideHook(t) = Undefined => resolved.hooks[t] = config.hooks[t]
            /\ CommandsOf(resolved.hooks[t]) \in
                  {CommandsOf(OverrideHook(t)), CommandsOf(config.hooks[t])}

\* an override for post-create while both levels configure it differently,
\* and a global post-delete hook without an override
C10_Witness ==
    /\ resolved # Unresolved
    /\ OverrideHook("post-create") = HArr(<<"C">>)
    /\ config.hooks["post-create"] = HArr(<<"A", "B">>)
    /\ resolved.hooks["post-create"] = HArr(<<"C">>)
    /\ OverrideHook("post-delete") = Undefined
    /\ config.hooks["post-delete"] = HStr("A")
    /\ resolved.hooks["post-delete"] = HStr("A")

------------------------------------------------------------------------------
(* lib/hooks.ts: executeHook called with every shape of hook configuration *)

HookInputs ==
    {Undefined, HStr(""), HStr("A"), HArr(<<>>), HArr(<<"A", "B">>),
     HObjStr("", NoTimeout, "unset"), HObjStr("A", 5, "true"),
     HObjStr("A", NoTimeout, "false"), HObjArr(<<>>, NoTimeout, "unset"),
     HObjArr(<<"A", "B">>, 5, "unset"), HObjArr(<<"A", "B">>, NoTimeout, "true")}

InitHook ==
    /\ isBun \in BOOLEAN
    /\ config = DEFAULT_CONFIG
    /\ resolved = Unresolved
    /\ gitNames = {Primary, "feat"}
    /\ CliInit
    /\ PrefsInit
    /\ AppIdle
    /\ TuiInit
    /\ call \in {[fn |-> "executeHook", done |-> FALSE, arg |-> h, result |-> Null] :
                    h \in HookInputs}

\* executeHook("post-create", hookConfig, context) up to its first await
HookCall ==
    /\ call.fn = "executeHook" /\ ~call.done
    /\ hk' = executeHook("post-create", call.arg,
                 Context("feat", PathOf("feat", expandHome(DefaultBase)),
                         <<"", "feat">>, RepoId, "", <<>>),
                 <<>>)
    /\ call' = [call EXCEPT !.done = TRUE, !.result = normalizeHookConfig(call.arg)]
    /\ UNCHANGED <<isBun, config, resolved, gitNames, cli, exitCode, stdout, px,
                   executed, results, warnings, runs, tuiVars, prefVars,
                   appVars>>

NextHook == HookCall \/ ExecNext

SpecHook == InitHook /\ [][NextHook]_vars

\* what the three formats normalize to, read off the input's own fields
Normalized(commands, timeout, continueOnError) ==
    [isNull |-> FALSE, commands |-> commands, timeout |-> timeout,
     continueOnError |-> continueOnError]

ExpectedOfObject(h) ==
    Normalized(IF h.ckind = "string" THEN <<h.str>> ELSE h.arr,
               IF h.timeout = NoTimeout THEN 30 ELSE h.timeout,
               IF h.coe = "unset" THEN FALSE ELSE h.coe = "true")

\* C12, as stated: every string s, the empty one included, normalizes to
\* {commands: [s], timeout: 30, continueOnError: false}
C12_EveryString ==
    (call.fn = "executeHook" /\ call.done /\ call.arg.kind = "string") =>
        call.result = Normalized(<<call.arg.str>>, 30, FALSE)

\* C12: normalizeHookConfig maps a non-empty string s to {commands: [s],
\* timeout: 30, continueOnError: false}, an array a to {commands: a, timeout:
\* 30, continueOnError: false} and an object to its explicit fields, a string
\* commands becoming a one-element list, timeout defaulting to 30 and
\* continueOnError to false; the empty string normalizes to null
C12_Normalization ==
    (call.fn = "executeHook" /\ call.done) =>
        LET h == call.arg
        IN /\ (h.kind = "string" /\ h.str # "") =>
                  call.result = Normalized(<<h.str>>, 30, FALSE)
           /\ (h.kind = "string" /\ h.str = "") => call.result.isNull
           /\ h.kind = "array" => call.result = Normalized(h.arr, 30, FALSE)
           /\ h.kind = "object" => call.result = ExpectedOfObject(h)

\* an object with an explicit timeout and continueOnError was normalized
C12_Witness ==
    /\ call.fn = "executeHook" /\ call.done
    /\ call.arg = HObjStr("A", 5, "true")
    /\ call.result = Normalized(<<"A">>, 5, TRUE)

\* the configurations the claim C13 calls absent or empty
IsEmptyConfig(h) ==
    \/ h.kind = "undefined"
    \/ h.kind = "string" /\ h.str = ""
    \/ h.kind = "array" /\ h.arr = <<>>
    \/ h.kind = "object" /\ h.ckind = "string" /\ h.str = ""
    \/ h.kind = "object" /\ h.ckind = "array" /\ h.arr = <<>>

\* C13: with an absent or empty hook configuration executeHook hands no
\* command to the shell and does not raise
C13_EmptyConfigRunsNothing ==
    (call.fn = "executeHook" /\ call.done /\ IsEmptyConfig(call.arg)) =>
        /\ executed = <<>>
        /\ hk.state # "raised"

------------------------------------------------------------------------------
(* lib/git/status.ts: getWorktreeStatus *)

DEFAULT_BRANCHES == <<"main", "master">>
REMOTE_DEFAULT_BRANCHES == <<"origin/main", "origin/master">>
STALE_DAYS_THRESHOLD == 30
SecondsPerDay == 86400

\* comparisonBranch.startsWith("origin/")
IsRemote(ref) == ref \in {"origin/main", "origin/master", "origin/develop"}

\* the first branch of the list that git rev-parse --verify accepts
RECURSIVE FirstValid(_, _)
FirstValid(list, refs) ==
    IF list = <<>> THEN UndefStr
    ELSE IF Head(list) \in refs THEN Head(list)
    ELSE FirstValid(Tail(list), refs)

getMainBranch(refs) == FirstValid(DEFAULT_BRANCHES, refs)
getComparisonBranch(refs) ==
    FirstValid(REMOTE_DEFAULT_BRANCHES \o DEFAULT_BRANCHES, refs)

\* the answer of git rev-list --left-right --count: it failed, it printed
\* something else than two numbers, or it printed the counts behind, ahead
RevAnswer(kind, behind, ahead) == [kind |-> kind, behind |-> behind, ahead |-> ahead]

\* the sync state of the lines 377-385, with the comparisons of ahead swapped
SyncStateSwapped(ahead, behind) ==
    IF ahead > 0 /\ behind > 0 THEN "diverged"
    ELSE IF behind > 0 THEN "ahead"
    ELSE IF ahead > 0 THEN "behind"
    ELSE "synced"

SyncState(ahead, behind) ==
    IF ahead > 0 /\ behind > 0 THEN "diverged"
    ELSE IF behind > 0 THEN "behind"
    ELSE IF ahead > 0 THEN "ahead"
    ELSE "synced"

\* daysSinceCommit >= STALE_DAYS_THRESHOLD
IsStaleInclusive(ageSeconds) == ageSeconds >= STALE_DAYS_THRESHOLD * SecondsPerDay

\* lines 425-426: (Date.now() / 1000 - timestamp) / 86400 > STALE_DAYS_THRESHOLD
IsStale(ageSeconds) == ageSeconds > STALE_DAYS_THRESHOLD * SecondsPerDay

\* the last commit's timestamp could not be read
NoAge == -1

\* ComparisonApplies without the exception for the mainline worktree
ComparisonAppliesAlways(isPrimaryWorktree, hasRemoteComparison) == TRUE

\* status.ts line 364: if (!isPrimaryWorktree || hasRemoteComparison)
ComparisonApplies(isPrimaryWorktree, hasRemoteComparison) ==
    ~isPrimaryWorktree \/ hasRemoteComparison

\* What git answers in a worktree: dirty (status --porcelain printed
\* something), refs (the refs rev-parse --verify accepts), rev (the answer of
\* rev-list), merged (branch --merged: "fail", "in" or "out" for the worktree's
\* branch), age (seconds since the last commit, NoAge when unreadable).
\* branch "" is the null branch of a detached worktree.  The result also tells
\* the ref handed to rev-list (compared) and to branch --merged (mergeChecked).
getWorktreeStatus(git, branch) ==
    LET mainBranch == getMainBranch(git.refs)
        comparisonBranch == getComparisonBranch(git.refs)
        sync == branch # "" /\ comparisonBranch # UndefStr
        isPrimaryWorktree == mainBranch # UndefStr /\ branch = mainBranch
        hasRemoteComparison == IsRemote(comparisonBranch)
        counted == sync /\ ComparisonApplies(isPrimaryWorktree, hasRemoteComparison)
        parsed == counted /\ git.rev.kind = "counts"
        behind == IF parsed THEN git.rev.behind ELSE NoCount
        ahead == IF parsed THEN git.rev.ahead ELSE NoCount
        mergeAsked == /\ sync /\ mainBranch # UndefStr /\ branch # mainBranch
                      /\ behind # NoCount /\ behind > 0
        mergeCheckBranch == IF hasRemoteComparison THEN comparisonBranch
                            ELSE mainBranch
    IN [status |->
            (IF git.dirty THEN {"dirty"} ELSE {})
            \cup (IF parsed THEN {SyncState(ahead, behind)} ELSE {})
            \cup (IF mergeAsked /\ git.merged = "in" THEN {"merged"} ELSE {})
            \cup (IF git.age # NoAge /\ IsStale(git.age) THEN {"stale"} ELSE {}),
        ahead |-> ahead,
        behind |-> behind,
        compared |-> IF counted THEN comparisonBranch ELSE UndefStr,
        mergeChecked |-> IF mergeAsked THEN mergeCheckBranch ELSE UndefStr]

\* the configurations the status is computed under, the answers of git and
\* the branches of the worktree
StatusConfigs ==
    {[DEFAULT_CONFIG EXCEPT !.comparisonBranch = c, !.staleDays = d] :
        c \in {UndefStr, "develop"}, d \in {14, 30}}
RevAnswers ==
    {RevAnswer("fail", 0, 0), RevAnswer("malformed", 0, 0),
     RevAnswer("counts", 0, 0), RevAnswer("counts", 0, 1),
     RevAnswer("counts", 3, 0), RevAnswer("counts", 2, 1)}
Ages ==
    {NoAge, 14 * SecondsPerDay + 1, 30 * SecondsPerDay - 1, 30 * SecondsPerDay,
     30 * SecondsPerDay + 1}
GitAnswers ==
    [dirty : BOOLEAN,
     refs : SUBSET {"origin/main", "origin/master", "main", "master"},
     rev : RevAnswers, merged : {"fail", "in", "out"}, age : Ages]
Branches == {"", "main", "master", "feat"}

NoStatusResult ==
    [status |-> {}, ahead |-> NoCount, behind |-> NoCount, compared |-> UndefStr,
     mergeChecked |-> UndefStr]

\* no git process could be spawned in the worktree (its directory is gone):
\* every query fails
SpawnFails(git) ==
    /\ ~git.dirty /\ git.refs = {} /\ git.rev.kind = "fail"
    /\ git.merged = "fail" /\ git.age = NoAge

InitStatus ==
    /\ isBun \in BOOLEAN
    /\ config \in StatusConfigs
    /\ resolved = Unresolved
    /\ gitNames = {Primary, "feat"}
    /\ CliInit
    /\ PrefsInit
    /\ AppIdle
    /\ TuiInit
    /\ call \in {[fn |-> "getWorktreeStatus", done |-> FALSE, raised |-> FALSE,
                  git |-> g, branch |-> b, result |-> NoStatusResult] :
                    g \in GitAnswers, b \in Branches}

\* useWorktrees.ts lines 36-43 and 60-64: getConfig, then getWorktreeStatus(
\* wt.path, wt.branch, configuredComparisonBranch); the function declares two
\* parameters, so the third argument is dropped
GetStatus ==
    /\ call.fn = "getWorktreeStatus" /\ ~call.done
    /\ resolved' = getConfig(config, RepoId)
    /\ \E spawned \in BOOLEAN :
        IF spawned
        THEN call' = [call EXCEPT !.done = TRUE,
                        !.result = getWorktreeStatus(call.git, call.branch)]
        ELSE \* compat.ts lines 76-80: Bun.spawn throws in execCommand, and
             \* neither git() nor getWorktreeStatus catches it
             /\ isBun /\ SpawnFails(call.git)
             /\ call' = [call EXCEPT !.done = TRUE, !.raised = TRUE]
    /\ UNCHANGED <<isBun, config, gitNames, cliVars, tuiVars, prefVars, appVars>>

NextStatus == GetStatus

SpecStatus == InitStatus /\ [][NextStatus]_vars

StatusDone_ == call.fn = "getWorktreeStatus" /\ call.done /\ ~call.raised
SyncStates == {"ahead", "behind", "diverged", "synced"}

\* C14: the ref the counts are taken against is the configured comparison
\* branch when one is configured, else the first of origin/main,
\* origin/master, main, master that resolves; when none resolves the result
\* has no sync state and no counts
C14_ComparisonBranch ==
    StatusDone_ =>
        LET probed == getComparisonBranch(call.git.refs)
            expected == IF resolved.comparisonBranch # UndefStr
                        THEN resolved.comparisonBranch ELSE probed
        IN /\ call.result.compared # UndefStr => call.result.compared = expected
           /\ expected = UndefStr =>
                 /\ call.result.status \cap SyncStates = {}
                 /\ call.result.ahead = NoCount /\ call.result.behind = NoCount

\* C15: a result has at most one sync state; the counts are present, and not
\* negative, exactly when it has one; diverged iff both counts > 0, ahead iff
\* only ahead > 0, behind iff only behind > 0, synced iff both are 0
C15_SyncStateMatchesCounts ==
    StatusDone_ =>
        LET r == call.result
            sync == r.status \cap SyncStates
        IN /\ Cardinality(sync) <= 1
           /\ (sync # {}) <=> (r.ahead # NoCount)
           /\ (r.ahead # NoCount) <=> (r.behind # NoCount)
           /\ r.ahead # NoCount => r.ahead >= 0 /\ r.behind >= 0
           /\ "diverged" \in r.status <=> (r.ahead > 0 /\ r.behind > 0)
           /\ "ahead" \in r.status <=> (r.ahead > 0 /\ r.behind = 0)
           /\ "behind" \in r.status <=> (r.behind > 0 /\ r.ahead = 0)
           /\ "synced" \in r.status <=> (r.ahead = 0 /\ r.behind = 0)

\* a worktree 1 ahead and 2 behind is diverged, one 3 behind is behind
C15_Witness ==
    /\ StatusDone_
    /\ call.git.rev = RevAnswer("counts", 2, 1)
    /\ call.result.ahead = 1 /\ call.result.behind = 2
    /\ call.result.status \cap SyncStates = {"diverged"}

\* C16: merged is reported exactly when the branch is not the mainline, the
\* worktree is at least one commit behind and the branch is in the merged
\* list of the merge-check branch, which is the remote comparison branch when
\* there is one and the local mainline otherwise
C16_MergedExactlyWhen ==
    StatusDone_ =>
        LET r == call.result
            mainline == getMainBranch(call.git.refs)
            comparison == getComparisonBranch(call.git.refs)
        IN /\ "merged" \in r.status <=>
                 /\ call.branch # "" /\ call.branch # mainline
                 /\ r.behind >= 1
                 /\ call.git.merged = "in"
           /\ r.mergeChecked # UndefStr =>
                 r.mergeChecked = IF IsRemote(comparison) THEN comparison
                                  ELSE mainline

\* C24: a worktree on the mainline branch (the first of main, master that
\* resolves) is compared, and has a sync state or counts, only when the
\* comparison branch is remote-qualified, and then it is compared with that
\* branch; with a local comparison branch it has no sync state and no
\* counts; a worktree on any other branch is compared with the comparison
\* branch whenever one resolves
C24_MainlineComparedOnlyToRemote ==
    (StatusDone_ /\ call.branch # "") =>
        LET r == call.result
            mainline == getMainBranch(call.git.refs)
            comparison == getComparisonBranch(call.git.refs)
        IN IF call.branch = mainline
           THEN /\ IsRemote(comparison) => r.compared = comparison
                /\ ~IsRemote(comparison) =>
                      /\ r.compared = UndefStr
                      /\ r.status \cap SyncStates = {}
                      /\ r.ahead = NoCount /\ r.behind = NoCount
           ELSE comparison # UndefStr => r.compared = comparison

\* the mainline worktree of a repository without a remote: git would have
\* answered with counts, and the result has none
C24_Witness ==
    /\ StatusDone_
    /\ call.branch = "master"
    /\ getMainBranch(call.git.refs) = "master"
    /\ getComparisonBranch(call.git.refs) = "master"
    /\ call.git.rev.kind = "counts"
    /\ call.result.compared = UndefStr
    /\ call.result.ahead = NoCount

\* C25: getWorktreeStatus ends by returning a result, and in it every fact
\* is what its own queries yield, whichever other queries failed: dirty iff
\* status --porcelain printed something; a sync state from the counts when
\* the comparison applies and rev-list answered; merged when the worktree is
\* known to be behind and the merged list holds the branch; stale iff the
\* last commit was read and is older than the threshold, also when HEAD is
\* detached or no comparison branch resolves
C25_StepsIndependent ==
    (call.fn = "getWorktreeStatus" /\ call.done) =>
        LET r == call.result
            g == call.git
            mainline == getMainBranch(g.refs)
            comparison == getComparisonBranch(g.refs)
            applies == /\ call.branch # "" /\ comparison # UndefStr
                       /\ (call.branch # mainline \/ IsRemote(comparison))
        IN /\ ~call.raised
           /\ "dirty" \in r.status <=> g.dirty
           /\ "stale" \in r.status <=> (g.age # NoAge /\ IsStale(g.age))
           /\ (applies /\ g.rev.kind = "counts") =>
                 SyncState(g.rev.ahead, g.rev.behind) \in r.status
           /\ (applies /\ g.rev.kind = "counts" /\ g.rev.behind > 0
                 /\ mainline # UndefStr /\ call.branch # mainline
                 /\ g.merged = "in") => "merged" \in r.status

\* C17: the threshold of staleness is the configured defaults.staleDays: a
\* last commit older than that many days is stale, a younger one is not
C17_ConfiguredThreshold ==
    (StatusDone_ /\ call.git.age # NoAge) =>
        ("stale" \in call.result.status
            <=> call.git.age > config.staleDays * SecondsPerDay)

------------------------------------------------------------------------------
(* The operations that remove or move a worktree: wt rm, wt mv and the delete *)
(* dialog of the TUI, on one repository                                       *)

InitPrimary ==
    /\ isBun \in BOOLEAN
    /\ config = DEFAULT_CONFIG
    /\ resolved = Unresolved
    /\ gitNames \in {{Primary}, {Primary, "feat"}}
    /\ CliInit
    /\ PrefsInit
    /\ AppIdle
    /\ dialog = NoDialog
    /\ worktrees = NoEntries
    /\ isLoading = TRUE
    /\ error = FALSE
    /\ fetches = {Fetch(1, "listing", {}, NoEntries, NoEntries)}
    /\ applied = {}
    /\ started = 1
    /\ call = NoCall

NextPrimary ==
    \/ CliRm \/ CliMv \/ TuiDelete
    \/ FetchListed \/ FetchApply \/ StatusDone \/ FetchFinish

SpecPrimary == InitPrimary /\ [][NextPrimary]_vars

\* wt rm or wt mv has just ended for the primary worktree
PrimaryCliAttempt ==
    /\ cli' # cli
    /\ cli'.phase = "exited" /\ cli'.cmd \in {"rm", "mv"}
    /\ cli'.name = Primary

\* the delete dialog was just confirmed for the primary worktree
PrimaryTuiAttempt == dialog' # dialog /\ dialog'.target = Primary

\* C19: wt rm, wt mv and the delete dialog fail with an error on the primary
\* worktree and leave the set of worktrees as it is; no step removes or
\* renames the primary worktree
C19_PrimaryNeverRemoved ==
    [][/\ PrimaryCliAttempt =>
            exitCode' = 1 /\ ~cli'.opDone /\ gitNames' = gitNames
       /\ PrimaryTuiAttempt =>
            dialog'.error # "" /\ gitNames' = gitNames /\ fetches' = fetches
       /\ Primary \in gitNames => Primary \in gitNames']_vars

\* wt rm main has failed and the delete dialog has refused main as well
C19_Witness ==
    /\ cli.phase = "exited" /\ cli.cmd = "rm" /\ cli.name = Primary
    /\ exitCode = 1
    /\ dialog.target = Primary /\ dialog.error # ""
    /\ Primary \in gitNames

------------------------------------------------------------------------------
(* lib/git/worktree.ts: parseWorktreeList *)

\* lines of a listing in one behaviour
MaxLines == 4

\* A text is a sequence of tokens: the newline character, or the whole
\* content of a non-empty line.  Line("blank", "") is the empty line.
Line(kind, value) == [kind |-> kind, value |-> value]
NL == Line("NL", "")
BlankLine == Line("blank", "")
ListingLines ==
    {Line("worktree", "/a"), Line("worktree", "/b"), Line("HEAD", "abc"),
     Line("branch", "x"), Line("detached", ""), Line("space", "   "), BlankLine}

\* the text whose lines are the given ones: lines.join("\n")
RECURSIVE TextOf(_)
TextOf(lines) ==
    IF lines = <<>> THEN <<>>
    ELSE (IF Head(lines) = BlankLine THEN <<>> ELSE <<Head(lines)>>)
         \o (IF Len(lines) > 1 THEN <<NL>> ELSE <<>>)
         \o TextOf(Tail(lines))

\* output.split("\n\n"): the pieces between the leftmost, non-overlapping
\* pairs of newlines; cur is the piece being read
RECURSIVE SplitBlocks(_, _)
SplitBlocks(text, cur) ==
    IF text = <<>> THEN <<cur>>
    ELSE IF Len(text) >= 2 /\ text[1] = NL /\ text[2] = NL
         THEN <<cur>> \o SplitBlocks(SubSeq(text, 3, Len(text)), <<>>)
         ELSE SplitBlocks(Tail(text), Append(cur, Head(text)))

\* block.trim() is not empty
TrimNonEmpty(block) ==
    \E k \in 1..Len(block) : block[k].kind \notin {"NL", "space"}

RECURSIVE FilterBlocks(_)
FilterBlocks(blocks) ==
    IF blocks = <<>> THEN <<>>
    ELSE (IF TrimNonEmpty(Head(blocks)) THEN <<Head(blocks)>> ELSE <<>>)
         \o FilterBlocks(Tail(blocks))

\* lines 34-52: the loop over the lines of a block, w the record so far
RECURSIVE ParseLines(_, _)
ParseLines(block, w) ==
    IF block = <<>> THEN w
    ELSE LET l == Head(block)
             w2 == IF l.kind = "worktree" THEN [w EXCEPT !.path = l.value]
                   ELSE IF l.kind = "HEAD" THEN [w EXCEPT !.head = l.value]
                   ELSE IF l.kind = "branch" THEN [w EXCEPT !.branch = l.value]
                   ELSE IF l.kind = "detached"
                        THEN [w EXCEPT !.isDetached = TRUE, !.branch = ""]
                   ELSE w
         IN ParseLines(Tail(block), w2)

EmptyWorktree == [path |-> "", head |-> "", branch |-> "", isDetached |-> FALSE]

\* a record is pushed for a path alone
IsCompletePathOnly(w) == w.path # ""

\* line 54: if (worktree.path && worktree.head)
IsComplete(w) == w.path # "" /\ w.head # ""

RECURSIVE ParseBlocks(_)
ParseBlocks(blocks) ==
    IF blocks = <<>> THEN <<>>
    ELSE LET w == ParseLines(Head(blocks), EmptyWorktree)
         IN (IF IsComplete(w) THEN <<w>> ELSE <<>>) \o ParseBlocks(Tail(blocks))

parseWorktreeList(output) == ParseBlocks(FilterBlocks(SplitBlocks(output, <<>>)))

RECURSIVE LinesUpTo(_)
LinesUpTo(n) ==
    IF n = 0 THEN {<<>>}
    ELSE LinesUpTo(n - 1) \cup [1..n -> ListingLines]

InitParse ==
    /\ isBun = TRUE
    /\ config = DEFAULT_CONFIG
    /\ resolved = Unresolved
    /\ gitNames = {Primary}
    /\ CliInit
    /\ PrefsInit
    /\ AppIdle
    /\ TuiInit
    /\ call \in {[fn |-> "parseWorktreeList", done |-> FALSE, lines |-> ls,
                  result |-> <<>>] : ls \in LinesUpTo(MaxLines)}

\* listWorktrees line 92: parseWorktreeList(result.stdout)
ParseList ==
    /\ call.fn = "parseWorktreeList" /\ ~call.done
    /\ call' = [call EXCEPT !.done = TRUE,
                            !.result = parseWorktreeList(TextOf(call.lines))]
    /\ UNCHANGED <<isBun, config, resolved, gitNames, cliVars, tuiVars,
                    prefVars, appVars>>

NextParse == ParseList

SpecParse == InitParse /\ [][NextParse]_vars

\* the blocks of a listing, line by line: the runs of lines between empty
\* lines; cur is the run being read
RECURSIVE RunsOf(_, _)
RunsOf(lines, cur) ==
    IF lines = <<>> THEN <<cur>>
    ELSE IF Head(lines) = BlankLine THEN <<cur>> \o RunsOf(Tail(lines), <<>>)
    ELSE RunsOf(Tail(lines), Append(cur, Head(lines)))

ValuesIn(run, kind) == {run[k].value : k \in {j \in 1..Len(run) : run[j].kind = kind}}

\* the runs that have both a path and a head, in listing order
RECURSIVE WellFormed(_)
WellFormed(rs) ==
    IF rs = <<>> THEN <<>>
    ELSE (IF ValuesIn(Head(rs), "worktree") # {} /\ ValuesIn(Head(rs), "HEAD") # {}
          THEN <<Head(rs)>> ELSE <<>>)
         \o WellFormed(Tail(rs))

ParseDone == call.fn = "parseWorktreeList" /\ call.done

------------------------------------------------------------------------------
(* Termination of a child that outlives the graceful signal (SpecHook) *)

\* C21: once the timeout has elapsed and the grace period after the graceful
\* signal is over (Node: the 1000 ms timer has fired; Bun: execShellCommand
\* has returned the timeout result), a child that was still running has been
\* sent a forced kill, so it no longer runs.
C21_ForcedKillAfterGrace ==
    (px.timedOut /\ (px.grace = "fired" \/ px.phase = "done")) => ~px.alive

------------------------------------------------------------------------------
(* lib/preferences: savePreferences under overlapping calls (SpecPrefs) *)

prefFrame ==
    UNCHANGED <<isBun, config, resolved, gitNames, cliVars, tuiVars, call,
                appVars>>

\* lines 73-82: the call up to its first await.  With a lock in place the
\* call awaits that promise; without one it creates its own lock and goes on
\* to loadPreferences, which awaits the file system.
SaveCall ==
    /\ \E c \in Savers :
        /\ savers[c].pc = "idle"
        /\ IF writeLock # NoLock
           THEN /\ savers' = [savers EXCEPT ![c].pc = "waiting",
                                            ![c].waitsOn = writeLock]
                /\ UNCHANGED writeLock
           ELSE /\ savers' = [savers EXCEPT ![c].pc = "loading"]
                /\ writeLock' = c
    /\ UNCHANGED <<released, prefsFile>>
    /\ prefFrame

\* lines 75-82: the awaited promise was resolved; the call goes on after the
\* if, creates its own lock and starts loadPreferences
SaveResume ==
    /\ \E c \in Savers :
        /\ savers[c].pc = "waiting"
        /\ savers[c].waitsOn \in released
        /\ savers' = [savers EXCEPT ![c].pc = "loading"]
        /\ writeLock' = c
    /\ UNCHANGED <<released, prefsFile>>
    /\ prefFrame

\* line 86: loadPreferences returns what the file holds now
SaveLoad ==
    /\ \E c \in Savers :
        /\ savers[c].pc = "loading"
        /\ savers' = [savers EXCEPT ![c].pc = "writing",
                                    ![c].existing = prefsFile]
    /\ UNCHANGED <<writeLock, released, prefsFile>>
    /\ prefFrame

\* lines 87-91: merged = {...existing, ...prefs} is written to the temporary
\* file, or writeFileText throws and the finally block is next
SaveWriteTemp ==
    /\ \E c \in Savers, ok \in BOOLEAN :
        /\ savers[c].pc = "writing"
        /\ savers' = [savers EXCEPT
                        ![c].pc = IF ok THEN "renaming" ELSE "failing",
                        ![c].temp = IF ok THEN savers[c].existing \cup {c}
                                    ELSE {}]
    /\ UNCHANGED <<writeLock, released, prefsFile>>
    /\ prefFrame

\* line 94: rename(tempPath, PREFERENCES_PATH) replaces the file
SaveRename ==
    /\ \E c \in Savers :
        /\ savers[c].pc = "renaming"
        /\ prefsFile' = savers[c].temp
        /\ savers' = [savers EXCEPT ![c].pc = "releasing"]
    /\ UNCHANGED <<writeLock, released>>
    /\ prefFrame

\* lines 95-99: finally: releaseLock(); writeLock = null
SaveRelease ==
    /\ \E c \in Savers :
        /\ savers[c].pc \in {"releasing", "failing"}
        /\ released' = released \cup {c}
        /\ writeLock' = NoLock
        /\ savers' = [savers EXCEPT
                        ![c].pc = IF savers[c].pc = "failing" THEN "rejected"
                                  ELSE "done"]
    /\ UNCHANGED prefsFile
    /\ prefFrame

InitPrefs ==
    /\ isBun \in BOOLEAN
    /\ config = DEFAULT_CONFIG
    /\ resolved = Unresolved
    /\ gitNames = {Primary}
    /\ CliInit /\ TuiInit /\ AppIdle
    /\ PrefsInit
    /\ call = NoCall

NextPrefs ==
    \/ SaveCall \/ SaveResume \/ SaveLoad \/ SaveWriteTemp \/ SaveRename
    \/ SaveRelease

SpecPrefs == InitPrefs /\ [][NextPrefs]_vars

\* the call of saver c is between its loadPreferences and its finally block
InSection(c) ==
    savers[c].pc \in {"loading", "writing", "renaming", "releasing", "failing"}

\* C22: at most one savePreferences call at a time is inside the
\* load-merge-write-rename section, and once every call has ended the file
\* holds the key of every call that ended without an exception
C22_SavesSerialized ==
    /\ Cardinality({c \in Savers : InSection(c)}) <= 1
    /\ (\A c \in Savers : savers[c].pc \in {"done", "rejected"}) =>
          \A c \in Savers : savers[c].pc = "done" => c \in prefsFile

------------------------------------------------------------------------------
(* Visibility of a finished status query during a refresh (SpecTui) *)

\* C23: while the only fetch in flight still waits for the status query of
\* some worktree, every displayed worktree whose own query has completed is
\* displayed with the status that query returned
C23_StatusShownWhenReady ==
    \A f \in fetches :
        (fetches = {f} /\ f.phase = "status" /\ f.list = DOMAIN worktrees
            /\ f.list \ DOMAIN f.got # {}) =>
            \A n \in DOMAIN f.got : worktrees[n] = f.got[n]

------------------------------------------------------------------------------
(* The working directory of the post-delete hook (SpecCli) *)

\* C26: every command of a post-delete hook is started after git removed the
\* worktree, with the repository root as its working directory, which is
\* never the path of the worktree that was removed
C26_PostDeleteFromRepoRoot ==
    \A k \in 1..Len(executed) :
        executed[k].hookType = "post-delete" =>
            /\ cli.cmd = "rm" /\ cli.opDone /\ cli.name \notin gitNames
            /\ executed[k].cwd = RepoRoot
            /\ executed[k].cwd # PathOf(cli.name, resolved.worktreeBase)

------------------------------------------------------------------------------
(* tui/App.tsx: keys, dialogs and the destination handed to the shell *)
(* (SpecApp).  SpecApp follows every fetch up to the display of its     *)
(* listing; the status phase of a fetch, which changes no selection and  *)
(* no destination, is followed in SpecTui.                              *)

\* the remainder operator of JavaScript on the values App.tsx applies it to
JsMod(a, n) == IF a = NaN \/ n = 0 THEN NaN ELSE a % n

\* line 76: (i + 1) % worktrees.length
NextIndex(i, len) == IF i = NaN THEN NaN ELSE JsMod(i + 1, len)

\* line 80: (i - 1 + worktrees.length) % worktrees.length
PrevIndex(i, len) == IF i = NaN THEN NaN ELSE JsMod(i - 1 + len, len)

selectedWorktree == SelectedOf(ListOf(worktrees), selectedIndex)

\* the dialogs are rendered only when the error screen is not (lines 143-149)
DialogShown(d) == ~quit.done /\ activeDialog = d /\ ~error

\* what a key handler leaves alone in useWorktrees
hookIdle ==
    UNCHANGED <<worktrees, isLoading, error, fetches, applied, started, gitNames,
                dialog>>

\* lines 75-82: j / down arrow and k / up arrow
KeyMove ==
    /\ ~quit.done /\ activeDialog = "none"
    /\ \E down \in BOOLEAN :
        LET len == Len(ListOf(worktrees))
        IN Effects(IF down THEN NextIndex(selectedIndex, len)
                   ELSE PrevIndex(selectedIndex, len), worktrees)
    /\ UNCHANGED <<activeDialog, destinationPath, quit>>
    /\ hookIdle
    /\ appFrame

\* lines 85-104: n, d, r, i and s open a dialog
KeyDialog ==
    /\ ~quit.done /\ activeDialog = "none"
    /\ \E d \in {"create", "delete", "rename", "details", "settings"} :
        /\ d \in {"delete", "rename", "details"} => selectedWorktree # UndefStr
        /\ d = "rename" => ~isPrimary(selectedWorktree)
        /\ activeDialog' = d
    /\ UNCHANGED <<selectedIndex, initialSelectionDone, destinationPath, quit>>
    /\ hookIdle
    /\ appFrame

\* lines 107-113: q hands the destination to onSelect and exits
KeyQuit ==
    /\ ~quit.done /\ activeDialog = "none"
    /\ quit' = [done |-> TRUE,
                selectedPath |->
                    IF destinationPath # UndefStr /\ destinationPath # currentPath
                    THEN destinationPath ELSE UndefStr,
                listed |-> DOMAIN worktrees]
    /\ UNCHANGED <<selectedIndex, activeDialog, initialSelectionDone,
                   destinationPath>>
    /\ hookIdle
    /\ appFrame

\* lines 116-119: Enter marks the selected worktree as destination
KeyEnter ==
    /\ ~quit.done /\ activeDialog = "none"
    /\ selectedWorktree # UndefStr
    /\ destinationPath' = selectedWorktree
    /\ UNCHANGED <<selectedIndex, activeDialog, initialSelectionDone, quit>>
    /\ hookIdle
    /\ appFrame

\* handleDialogClose, lines 124-126: a dialog is dismissed
DialogClose ==
    /\ ~quit.done /\ activeDialog # "none" /\ ~error
    /\ activeDialog \in {"delete", "rename", "details"} =>
          selectedWorktree # UndefStr
    /\ activeDialog' = "none"
    /\ dialog' = NoDialog
    /\ UNCHANGED <<selectedIndex, initialSelectionDone, destinationPath, quit>>
    /\ UNCHANGED <<worktrees, isLoading, error, fetches, applied, started,
                   gitNames>>
    /\ appFrame

\* DetailsView onSelect, lines 193-196
DetailsSelect ==
    /\ DialogShown("details") /\ selectedWorktree # UndefStr
    /\ destinationPath' = selectedWorktree
    /\ activeDialog' = "none"
    /\ UNCHANGED <<selectedIndex, initialSelectionDone, quit>>
    /\ hookIdle
    /\ appFrame

\* DeleteConfirm handleDelete on the selected worktree (y), then onDeleted of
\* lines 172-177 and handleDeleted: refresh()
DeleteConfirmed ==
    /\ DialogShown("delete") /\ selectedWorktree # UndefStr
    /\ Primary \in DOMAIN worktrees
    /\ \E gitOk \in BOOLEAN :
        LET target == selectedWorktree
            isDeletingCurrent == currentPath = target
        IN IF isPrimary(target)
           THEN /\ gitOk
                /\ dialog' = [target |-> target,
                              error |-> "Cannot delete primary worktree"]
                /\ UNCHANGED <<gitNames, isLoading, error, fetches, started,
                               activeDialog, destinationPath>>
           ELSE IF ~gitOk \/ target \notin gitNames
           THEN /\ ~gitOk
                /\ dialog' = [target |-> target, error |-> "Failed to delete"]
                /\ UNCHANGED <<gitNames, isLoading, error, fetches, started,
                               activeDialog, destinationPath>>
           ELSE /\ gitNames' = gitNames \ {target}
                /\ dialog' = NoDialog
                /\ destinationPath' = IF isDeletingCurrent THEN Primary
                                      ELSE destinationPath
                /\ activeDialog' = "none"
                /\ StartFetch
    /\ UNCHANGED <<worktrees, applied, selectedIndex, initialSelectionDone, quit>>
    /\ appFrame

\* RenameDialog handleRename on the selected worktree, then handleRenamed:
\* refresh()
RenameSubmit ==
    /\ DialogShown("rename") /\ selectedWorktree # UndefStr
    /\ \E newName \in TuiNames \ {selectedWorktree} :
        /\ selectedWorktree \in gitNames /\ newName \notin gitNames
        /\ gitNames' = (gitNames \ {selectedWorktree}) \cup {newName}
    /\ activeDialog' = "none"
    /\ StartFetch
    /\ UNCHANGED <<worktrees, applied, dialog, selectedIndex, initialSelectionDone,
                   destinationPath, quit>>
    /\ appFrame

\* CreateDialog handleCreate, then handleCreated: refresh()
CreateSubmit ==
    /\ DialogShown("create")
    /\ \E name \in TuiNames \ gitNames : gitNames' = gitNames \cup {name}
    /\ activeDialog' = "none"
    /\ StartFetch
    /\ UNCHANGED <<worktrees, applied, dialog, selectedIndex, initialSelectionDone,
                   destinationPath, quit>>
    /\ appFrame

\* SettingsDialog onSaved, lines 204-207: refresh()
SettingsSaved ==
    /\ DialogShown("settings")
    /\ activeDialog' = "none"
    /\ StartFetch
    /\ UNCHANGED <<worktrees, applied, dialog, gitNames, selectedIndex,
                   initialSelectionDone, destinationPath, quit>>
    /\ appFrame

\* wt is started in a worktree of the repository, or in a directory the
\* listing does not name (a worktree directory moved by hand, GIT_WORK_TREE)
Elsewhere == "elsewhere"

\* tui/index.ts showMainTui: currentPath = process.cwd(), App is rendered and
\* useWorktrees starts its first fetch
InitApp ==
    /\ isBun = TRUE
    /\ config = DEFAULT_CONFIG
    /\ resolved = Unresolved
    /\ gitNames = {Primary, "feat"}
    /\ CliInit /\ call = NoCall
    /\ PrefsInit
    /\ worktrees = NoEntries
    /\ isLoading = TRUE
    /\ error = FALSE
    /\ fetches = {Fetch(1, "listing", {}, NoEntries, NoEntries)}
    /\ applied = {}
    /\ started = 1
    /\ dialog = NoDialog
    /\ \E cur \in {Primary, "feat", Elsewhere} : AppMounted(cur)

NextApp ==
    \/ KeyMove \/ KeyDialog \/ KeyQuit \/ KeyEnter
    \/ DialogClose \/ DetailsSelect \/ DeleteConfirmed \/ RenameSubmit
    \/ CreateSubmit \/ SettingsSaved
    \/ FetchListed \/ FetchApply

SpecApp == InitApp /\ [][NextApp]_vars

\* C27: when the TUI has quit with a destination handed to onSelect, that
\* destination is the path of a worktree of the listing on display at that
\* moment, or of a worktree that exists
C27_DestinationExists ==
    (quit.done /\ quit.selectedPath # UndefStr) =>
        quit.selectedPath \in quit.listed \cup gitNames

\* C28: whenever the displayed list is not empty, selectedIndex is an integer
\* in [0, length - 1], so that a selected worktree is defined
C28_SelectionInBounds ==
    Len(ListOf(worktrees)) > 0 =>
        /\ selectedIndex # NaN
        /\ selectedIndex >= 0 /\ selectedIndex <= Len(ListOf(worktrees)) - 1
        /\ selectedWorktree # UndefStr

------------------------------------------------------------------------------
(* Placement of created and moved worktrees (SpecCli) *)

\* C29: whenever wt new has created a worktree or wt mv has moved one, the
\* name it was given satisfies the name rules (valid characters, at most
\* MAX_NAME_LENGTH long, not reserved) and the path handed to git is
\* <base>/<repoId>/<name>
C29_PlacedUnderRepoDir ==
    (cli.cmd \in {"new", "mv"} /\ cli.opDone) =>
        LET name == IF cli.cmd = "new" THEN cli.name ELSE cli.newName
        IN /\ VALID_NAME(name)
           /\ Len(Spell[name]) <= MAX_NAME_LENGTH
           /\ name \notin RESERVED_NAMES
           /\ resolveWorktreePath(RepoId, name, resolved.worktreeBase)
                 = resolved.worktreeBase \o <<RepoId, name>>

------------------------------------------------------------------------------
(* SettingsDialog: a repository override added and saved (SpecSettings) *)

\* the empty string as a path
EmptyPath == <<"">>

\* the global configurations the dialog is opened on
GlobalConfigs ==
    {[DEFAULT_CONFIG EXCEPT !.branchPrefix = p, !.base = b,
                            !.comparisonBranch = c] :
        p \in {"", "feature/"}, b \in {DefaultBase, <<"srv", "wt">>},
        c \in {UndefStr, "develop"}}

\* addRepoOverride lines 620-626: the override a new entry starts with
NewOverride ==
    [branchPrefix |-> "", base |-> EmptyPath, comparisonBranch |-> "",
     hooks |-> NoHooks]

\* updateField lines 545-548: [field]: value || undefined
StrOrUndefined(value) == IF value = "" THEN UndefStr ELSE value
PathOrUndefined(value) == IF value = EmptyPath THEN <<>> ELSE value

\* what the fields are edited to
PrefixEdits == {"", "team/"}
BaseEdits == {EmptyPath, <<"data", "wt">>}
BranchEdits == {"", "origin/develop"}

\* the dialog is mounted: loadGlobalConfig().then(setConfig), lines 423-428
SettingsOpen(cfg) ==
    [fn |-> "SettingsDialog", done |-> FALSE, draft |-> cfg, added |-> FALSE,
     edited |-> {}]

settingsFrame ==
    UNCHANGED <<isBun, gitNames, cliVars, tuiVars, prefVars, appVars>>

\* addRepoOverride(repoId), lines 617-630
AddRepoOverride ==
    /\ call.fn = "SettingsDialog" /\ ~call.done
    /\ RepoId \notin DOMAIN call.draft.repos
    /\ call' = [call EXCEPT !.draft.repos = (RepoId :> NewOverride) @@ @,
                            !.added = TRUE]
    /\ UNCHANGED <<config, resolved>>
    /\ settingsFrame

\* deleteRepoOverride(repoId), lines 633-641
DeleteRepoOverride ==
    /\ call.fn = "SettingsDialog" /\ ~call.done
    /\ RepoId \in DOMAIN call.draft.repos
    /\ call' = [call EXCEPT
                  !.draft.repos = [r \in DOMAIN @ \ {RepoId} |-> @[r]],
                  !.added = FALSE, !.edited = {}]
    /\ UNCHANGED <<config, resolved>>
    /\ settingsFrame

\* updateField on a field of the override, lines 536-551
UpdateRepoField ==
    /\ call.fn = "SettingsDialog" /\ ~call.done
    /\ RepoId \in DOMAIN call.draft.repos
    /\ \/ \E v \in PrefixEdits :
            call' = [call EXCEPT
                       !.draft.repos[RepoId].branchPrefix = StrOrUndefined(v),
                       !.edited = @ \cup {"branchPrefix"}]
       \/ \E v \in BaseEdits :
            call' = [call EXCEPT
                       !.draft.repos[RepoId].base = PathOrUndefined(v),
                       !.edited = @ \cup {"base"}]
       \/ \E v \in BranchEdits :
            call' = [call EXCEPT
                       !.draft.repos[RepoId].comparisonBranch = StrOrUndefined(v),
                       !.edited = @ \cup {"comparisonBranch"}]
    /\ UNCHANGED <<config, resolved>>
    /\ settingsFrame

\* saveGlobalConfig writes JSON.stringify(config) and loadGlobalConfig parses
\* it: a field that is undefined is left out and is absent when read back,
\* every string, the empty one included, is read back as it was written
StoredOverride(o) ==
    [branchPrefix |-> o.branchPrefix, base |-> o.base,
     comparisonBranch |-> o.comparisonBranch, hooks |-> o.hooks]
StoredConfig(cfg) ==
    [cfg EXCEPT !.repos = [r \in DOMAIN cfg.repos |-> StoredOverride(cfg.repos[r])]]

\* handleSave, lines 645-665: the draft passes ConfigSchema and is written
SettingsSave ==
    /\ call.fn = "SettingsDialog" /\ ~call.done
    /\ config' = StoredConfig(call.draft)
    /\ call' = [call EXCEPT !.done = TRUE]
    /\ UNCHANGED resolved
    /\ settingsFrame

\* a command run after the dialog has saved: getConfig for this repository
ConfigRead ==
    /\ call.fn = "SettingsDialog" /\ call.done
    /\ resolved = Unresolved
    /\ resolved' = getConfig(config, RepoId)
    /\ UNCHANGED <<config, call>>
    /\ settingsFrame

InitSettings ==
    /\ isBun = TRUE
    /\ config \in GlobalConfigs
    /\ resolved = Unresolved
    /\ gitNames = {Primary}
    /\ CliInit /\ TuiInit /\ AppIdle
    /\ PrefsInit
    /\ call = SettingsOpen(config)

NextSettings ==
    \/ AddRepoOverride \/ DeleteRepoOverride \/ UpdateRepoField
    \/ SettingsSave \/ ConfigRead

SpecSettings == InitSettings /\ [][NextSettings]_vars

\* C30: after a repository override was added in the Settings dialog and
\* saved with none of its fields edited, getConfig for the repository
\* returns the global branchPrefix, worktree base and comparison branch
C30_UneditedOverrideFallsThrough ==
    (call.fn = "SettingsDialog" /\ call.done /\ call.added /\ call.edited = {}
        /\ resolved # Unresolved) =>
        /\ resolved.branchPrefix = config.branchPrefix
        /\ resolved.worktreeBase = expandHome(config.base)
        /\ resolved.comparisonBranch = config.comparisonBranch

====
